---- MODULE Spec2Model ----
(***************************************************************************)
(* Model of whisper-analysis: a React surface (App) that posts an audio    *)
(* locator to a Web Worker, and the worker's async "message" listener that *)
(* fetches the four model assets, builds a Decoder, fetches the audio,     *)
(* decodes it and posts the parsed output back.                            *)
(*                                                                         *)
(* Every invocation of the async listener is a handler with its own local  *)
(* variables; a handler runs until its next await, where it is suspended   *)
(* and the worker's event loop may run another handler or dispatch the     *)
(* next queued message.                                                    *)
(***************************************************************************)
EXTENDS Integers, Sequences, FiniteSets, TLC

(***************************************************************************)
(* Bounds of the model.                                                    *)
(***************************************************************************)
\* Button presses (decode requests) in one run.
MaxReq == 2

\* Files the user can pick or drop, and URLs the user can drop.
Files == {"a.wav"}
Urls == {"https://b/b.wav"}

(***************************************************************************)
(* worker.js: the asset locations.                                         *)
(***************************************************************************)
model ==
  << "https://huggingface.co/openai/whisper-tiny/resolve/main/model.safetensors",
     "model/tokenizer.json",
     "model/config.json",
     "model/mel_filters.safetensors" >>

Locs == 1..Len(model)

Reqs == 1..MaxReq

VARIABLES
  audioSrc,   \* App: useState('') audioSrc
  text,       \* App: useState('') text
  toWorker,   \* messages posted by the surface, not yet dispatched in the worker
  toSurface,  \* messages posted by the worker, not yet handled by the surface
  h,          \* worker: the invocations of the message listener, by arrival
  emitted     \* history: the statuses each invocation has posted

vars == <<audioSrc, text, toWorker, toSurface, h, emitted>>

(***************************************************************************)
(* Platform: fetch, Response.arrayBuffer, Promise.all.                     *)
(***************************************************************************)
\* How a fetch settles: fulfilled with a success response, fulfilled with a
\* non-success response (fetch does not reject on HTTP status), or rejected.
FetchOutcomes == {"ok", "http", "neterr"}

\* The promise fetch(url) settled with `outcome`.
fetch(url, outcome) ==
  IF outcome = "neterr"
    THEN [state |-> "rejected", value |-> [url |-> url, ok |-> FALSE]]
    ELSE [state |-> "fulfilled", value |-> [url |-> url, ok |-> outcome = "ok"]]

\* The bytes response.arrayBuffer() resolves to: the body of the response,
\* which is the resource for a success status and the error page otherwise.
arrayBuffer(response) ==
  [of |-> response.url, body |-> IF response.ok THEN "resource" ELSE "errorpage"]

\* new Uint8Array(buffer): a view of the same bytes.
Uint8Array(buffer) == [bytes |-> buffer]

\* The orders in which n concurrent promises can settle, up to what
\* Promise.all can observe (which one settles first).
Rotation(n, k) == [i \in 1..n |-> ((i + k - 2) % n) + 1]
SettleOrders(n) == {Rotation(n, k) : k \in 1..n}

RECURSIVE FirstRejected(_, _, _)
FirstRejected(promises, order, k) ==
  IF k > Len(order) THEN 0
  ELSE IF promises[order[k]].state = "rejected" THEN order[k]
  ELSE FirstRejected(promises, order, k + 1)

\* Mutant of PromiseAll: the values are collected in the order of settling.
PromiseAll_CompletionOrder(promises, order) ==
  LET bad == FirstRejected(promises, order, 1) IN
  IF bad # 0
    THEN [state |-> "rejected", value |-> promises[bad].value]
    ELSE [state |-> "fulfilled",
          value |-> [i \in 1..Len(promises) |-> promises[order[i]].value]]

\* Promise.all(promises), the promises settling in `order`: rejected with the
\* first rejection, else fulfilled with the values in the order of the input.
PromiseAll(promises, order) ==
  LET bad == FirstRejected(promises, order, 1) IN
  IF bad # 0
    THEN [state |-> "rejected", value |-> promises[bad].value]
    ELSE [state |-> "fulfilled",
          value |-> [i \in 1..Len(promises) |-> promises[i].value]]

(***************************************************************************)
(* The engine (wasm/whisper.js), opaque: what it can answer.               *)
(***************************************************************************)
\* One entry of the engine's output: an object with one nested object that
\* carries the text, under the key `dr` or under the key `result`.
Entry(key, t) == [k \in {key} |-> [text |-> t]]

\* The documents an engine may encode in the string decode() returns.
Docs == {<<>>, <<Entry("dr", "test")>>, <<Entry("result", "test")>>,
         <<Entry("dr", "Hi"), Entry("dr", "test")>>}

\* The string decode() returns: the JSON text of a document, or no JSON.
JSONstringify(doc) == [json |-> TRUE, doc |-> doc]
NotJSON == [json |-> FALSE]

\* JSON.parse(data): the document, or a SyntaxError.
JSONparse(data) ==
  IF data.json THEN [threw |-> FALSE, value |-> data.doc]
  ELSE [threw |-> TRUE, value |-> <<>>]

\* decode() throws, or returns one of these strings.
DecodeReturns == {JSONstringify(d) : d \in Docs} \cup {NotJSON}

(***************************************************************************)
(* Initial state.                                                          *)
(***************************************************************************)
NoInstance == [id |-> 0]

\* An invocation: where it is suspended (pc), event.data.audioSrc (src), the
\* buffers it holds (bufs) and its Decoder (instance); and as history the
\* asset locations it fetched (fetched), whether it constructed a Decoder
\* (constructed), the Decoder whose decode() it called (decodedBy), the
\* failure that ended it (err), whether no other invocation was suspended
\* when it started (alone), and whether every fetch it made so far was
\* answered with a success status (clean).
Idle ==
  [pc |-> "idle", src |-> "", bufs |-> <<>>, instance |-> NoInstance,
   fetched |-> {}, constructed |-> FALSE, decodedBy |-> 0, err |-> "",
   alone |-> FALSE, clean |-> TRUE]

Init ==
  /\ audioSrc = ""
  /\ text = ""
  /\ toWorker = <<>>
  /\ toSurface = <<>>
  /\ h = [r \in Reqs |-> Idle]
  /\ emitted = [r \in Reqs |-> <<>>]

(***************************************************************************)
(* App (the surface).                                                      *)
(***************************************************************************)
\* URL.createObjectURL(file)
createObjectURL(file) == "blob:" \o file

\* Requests posted so far.
Sent == Len(toWorker) + Cardinality({r \in Reqs : h[r].pc # "idle"})

\* handleChange: the file input changed to `files`.
handleChange(files) ==
  /\ audioSrc' = IF Len(files) > 0 THEN createObjectURL(files[1]) ELSE audioSrc
  /\ UNCHANGED <<text, toWorker, toSurface, h, emitted>>

\* handleDrop: a drop carrying `files` and the uri-list `url`.
handleDrop(files, url) ==
  /\ audioSrc' = IF Len(files) > 0 THEN createObjectURL(files[1])
                 ELSE IF url # "" THEN url
                 ELSE audioSrc
  /\ UNCHANGED <<text, toWorker, toSurface, h, emitted>>

\* Mutant of handleAnalysis: the early return is missing.
handleAnalysis_NoGuard ==
  /\ Sent < MaxReq
  /\ toWorker' = Append(toWorker, [audioSrc |-> audioSrc])
  /\ UNCHANGED <<audioSrc, text, toSurface, h, emitted>>

\* handleAnalysis: the button was pressed.
handleAnalysis ==
  /\ Sent < MaxReq
  /\ toWorker' = IF audioSrc = "" THEN toWorker
                 ELSE Append(toWorker, [audioSrc |-> audioSrc])
  /\ UNCHANGED <<audioSrc, text, toSurface, h, emitted>>

\* Mutant of join: the separator is dropped.
RECURSIVE join_NoSeparator(_, _)
join_NoSeparator(strs, sep) ==
  IF Len(strs) = 0 THEN ""
  ELSE strs[1] \o join_NoSeparator(Tail(strs), sep)

\* Mutant of join: the separator follows every element, the last included.
RECURSIVE join_Trailing(_, _)
join_Trailing(strs, sep) ==
  IF Len(strs) = 0 THEN ""
  ELSE strs[1] \o sep \o join_Trailing(Tail(strs), sep)

\* [a, b, ...].join(sep)
RECURSIVE join(_, _)
join(strs, sep) ==
  IF Len(strs) = 0 THEN ""
  ELSE IF Len(strs) = 1 THEN strs[1]
  ELSE strs[1] \o sep \o join(Tail(strs), sep)

\* _ => _.dr.text throws a TypeError on an entry without `dr`.
HasDr(entry) == "dr" \in DOMAIN entry

\* output.map(_ => _.dr.text).join(" ")
Transcript(output) == join([i \in 1..Len(output) |-> output[i].dr.text], " ")

\* Mutant of onMessage: the status is not tested.
onMessage_AnyStatus ==
  /\ toSurface # <<>>
  /\ LET m == Head(toSurface) IN
       text' = IF "output" \in DOMAIN m /\ \A i \in 1..Len(m.output) : HasDr(m.output[i])
                 THEN Transcript(m.output)
                 ELSE text
  /\ toSurface' = Tail(toSurface)
  /\ UNCHANGED <<audioSrc, toWorker, h, emitted>>

\* onMessage: the surface handles the oldest message of the worker.
onMessage ==
  /\ toSurface # <<>>
  /\ LET m == Head(toSurface) IN
       text' = IF m.status = "complete" /\ \A i \in 1..Len(m.output) : HasDr(m.output[i])
                 THEN Transcript(m.output)
                 ELSE text
  /\ toSurface' = Tail(toSurface)
  /\ UNCHANGED <<audioSrc, toWorker, h, emitted>>

(***************************************************************************)
(* worker.js: the message listener, one action per run between two awaits. *)
(***************************************************************************)
\* The invocations suspended at an await.
Suspended == {r \in Reqs : h[r].pc \notin {"idle", "done", "failed"}}

\* The invocation a newly dispatched message starts.
NextReq == Cardinality({r \in Reqs : h[r].pc # "idle"}) + 1

\* Mutant of Dispatch: the assets are fetched by the first invocation only.
Dispatch_FetchOnce ==
  /\ toWorker # <<>>
  /\ h' = [h EXCEPT ![NextReq] =
             [@ EXCEPT !.pc = "awaitResponses", !.src = Head(toWorker).audioSrc,
                       !.fetched = IF NextReq = 1 THEN Locs ELSE {},
                       !.alone = (Suspended = {})]]
  /\ toWorker' = Tail(toWorker)
  /\ UNCHANGED <<audioSrc, text, toSurface, emitted>>

\* Mutant of Dispatch: the fetches are issued one after the other, each
\* awaited before the next is issued.
Dispatch_Sequential ==
  /\ toWorker # <<>>
  /\ h' = [h EXCEPT ![NextReq] =
             [@ EXCEPT !.pc = "awaitResponses", !.src = Head(toWorker).audioSrc,
                       !.fetched = {1},
                       !.alone = (Suspended = {})]]
  /\ toWorker' = Tail(toWorker)
  /\ UNCHANGED <<audioSrc, text, toSurface, emitted>>

\* The listener is invoked with the oldest queued message and runs up to
\* the await of the inner Promise.all, having issued the four fetches.
Dispatch ==
  /\ toWorker # <<>>
  /\ h' = [h EXCEPT ![NextReq] =
             [@ EXCEPT !.pc = "awaitResponses", !.src = Head(toWorker).audioSrc,
                       !.fetched = Locs,
                       !.alone = (Suspended = {})]]
  /\ toWorker' = Tail(toWorker)
  /\ UNCHANGED <<audioSrc, text, toSurface, emitted>>

\* The listener's promise rejects and nothing handles it: the invocation
\* ends there.
Throw(r, kind) ==
  [h EXCEPT ![r] = [@ EXCEPT !.pc = "failed", !.err = kind, !.bufs = <<>>,
                             !.instance = NoInstance]]

\* The inner Promise.all settles; on success arrayBuffer() is called on each
\* response and the invocation awaits the outer Promise.all.
ResponsesSettle(r, outcomes, order) ==
  /\ h[r].pc = "awaitResponses"
  /\ LET all == PromiseAll([i \in Locs |-> fetch(model[i], outcomes[i])], order) IN
       h' = IF all.state = "rejected" THEN Throw(r, "assetFetch")
            ELSE [h EXCEPT ![r] =
                    [@ EXCEPT !.pc = "awaitBuffers",
                              !.clean = \A i \in Locs : all.value[i].ok,
                              !.bufs = [i \in Locs |-> arrayBuffer(all.value[i])]]]
  /\ UNCHANGED <<audioSrc, text, toWorker, toSurface, emitted>>

\* The outer Promise.all settles, the conversions settling in `order` (a
\* body may fail to download); on success the buffers are wrapped and init()
\* is called and awaited.
BuffersSettle(r, bodiesOk, order) ==
  /\ h[r].pc = "awaitBuffers"
  /\ LET all == PromiseAll([i \in Locs |->
                              [state |-> IF bodiesOk[i] THEN "fulfilled" ELSE "rejected",
                               value |-> h[r].bufs[i]]], order) IN
       h' = IF all.state = "rejected" THEN Throw(r, "assetBody")
            ELSE [h EXCEPT ![r] =
                    [@ EXCEPT !.pc = "awaitInit",
                              !.bufs = [i \in Locs |-> Uint8Array(all.value[i])]]]
  /\ UNCHANGED <<audioSrc, text, toWorker, toSurface, emitted>>

\* new Decoder(weights, tokenizer, mel_filters, config, quantized,
\* is_multilingual, timestamps, task, language)
Decoder(id, weights, tokenizer, mel_filters, config, f1, f2, f3, f4, f5) ==
  [id |-> id, weights |-> weights, tokenizer |-> tokenizer,
   mel_filters |-> mel_filters, config |-> config,
   flags |-> <<f1, f2, f3, f4, f5>>]

\* Mutant of InitSettles: the buffers are passed in the order of `model`.
InitSettles_ModelOrder(r, initOk, newOk) ==
  /\ h[r].pc = "awaitInit"
  /\ LET weights == h[r].bufs[1]
         tokenizer == h[r].bufs[2]
         config == h[r].bufs[3]
         mel_filters == h[r].bufs[4]
         instance == Decoder(r, weights, tokenizer, config, mel_filters,
                             FALSE, TRUE, TRUE, "null", "null")
     IN h' = IF ~initOk THEN Throw(r, "wasmInit")
             ELSE IF ~newOk THEN Throw(r, "construct")
             ELSE [h EXCEPT ![r] =
                     [@ EXCEPT !.pc = "awaitAudio", !.bufs = <<>>,
                               !.instance = instance, !.constructed = TRUE]]
  /\ UNCHANGED <<audioSrc, text, toWorker, toSurface, emitted>>

\* init() settles; on success the Decoder is constructed from the
\* destructured buffers (it may throw), the audio fetch is issued and awaited.
InitSettles(r, initOk, newOk) ==
  /\ h[r].pc = "awaitInit"
  /\ LET weights == h[r].bufs[1]
         tokenizer == h[r].bufs[2]
         config == h[r].bufs[3]
         mel_filters == h[r].bufs[4]
         instance == Decoder(r, weights, tokenizer, mel_filters, config,
                             FALSE, TRUE, TRUE, "null", "null")
     IN h' = IF ~initOk THEN Throw(r, "wasmInit")
             ELSE IF ~newOk THEN Throw(r, "construct")
             ELSE [h EXCEPT ![r] =
                     [@ EXCEPT !.pc = "awaitAudio", !.bufs = <<>>,
                               !.instance = instance, !.constructed = TRUE]]
  /\ UNCHANGED <<audioSrc, text, toWorker, toSurface, emitted>>

\* Mutant of AudioSettles: the locator is read from the newest request, as
\* if it were kept in a variable of the module.
AudioSettles_NewestSrc(r, outcome) ==
  /\ h[r].pc = "awaitAudio"
  /\ LET p == fetch(h[NextReq - 1].src, outcome) IN
       h' = IF p.state = "rejected" THEN Throw(r, "audioFetch")
            ELSE [h EXCEPT ![r] =
                    [@ EXCEPT !.pc = "awaitAudioBuffer",
                              !.clean = @ /\ p.value.ok,
                              !.bufs = <<arrayBuffer(p.value)>>]]
  /\ UNCHANGED <<audioSrc, text, toWorker, toSurface, emitted>>

\* fetch(event.data.audioSrc) settles; on success arrayBuffer() is awaited.
AudioSettles(r, outcome) ==
  /\ h[r].pc = "awaitAudio"
  /\ LET p == fetch(h[r].src, outcome) IN
       h' = IF p.state = "rejected" THEN Throw(r, "audioFetch")
            ELSE [h EXCEPT ![r] =
                    [@ EXCEPT !.pc = "awaitAudioBuffer",
                              !.clean = @ /\ p.value.ok,
                              !.bufs = <<arrayBuffer(p.value)>>]]
  /\ UNCHANGED <<audioSrc, text, toWorker, toSurface, emitted>>

\* The audio body settles; on success the engine decodes it (it may throw),
\* the returned string is parsed (it may throw) and the result is posted.
AudioBufferSettles(r, bodyOk, decodeOk, data) ==
  /\ h[r].pc = "awaitAudioBuffer"
  /\ LET parsed == JSONparse(data) IN
     IF ~bodyOk THEN h' = Throw(r, "audioBody") /\ UNCHANGED <<toSurface, emitted>>
     ELSE IF ~decodeOk
       THEN /\ h' = [Throw(r, "decode") EXCEPT ![r].decodedBy = h[r].instance.id]
            /\ UNCHANGED <<toSurface, emitted>>
     ELSE IF parsed.threw
       THEN /\ h' = [Throw(r, "parse") EXCEPT ![r].decodedBy = h[r].instance.id]
            /\ UNCHANGED <<toSurface, emitted>>
     ELSE /\ h' = [h EXCEPT ![r] = [@ EXCEPT !.pc = "done", !.bufs = <<>>,
                                              !.decodedBy = h[r].instance.id,
                                              !.instance = NoInstance]]
          /\ toSurface' = Append(toSurface,
                                 [status |-> "complete", output |-> parsed.value, req |-> r])
          /\ emitted' = [emitted EXCEPT ![r] = Append(@, "complete")]
  /\ UNCHANGED <<audioSrc, text, toWorker>>

(***************************************************************************)
(* The system.                                                             *)
(***************************************************************************)
FileLists == {<<>>} \cup {<<f>> : f \in Files}

Next ==
  \/ \E files \in FileLists : handleChange(files)
  \/ \E files \in FileLists, url \in Urls \cup {""} : handleDrop(files, url)
  \/ handleAnalysis
  \/ onMessage
  \/ Dispatch
  \/ \E r \in Reqs, outcomes \in [Locs -> FetchOutcomes], order \in SettleOrders(Len(model)) :
       ResponsesSettle(r, outcomes, order)
  \/ \E r \in Reqs, bodiesOk \in [Locs -> BOOLEAN], order \in SettleOrders(Len(model)) :
       BuffersSettle(r, bodiesOk, order)
  \/ \E r \in Reqs, initOk \in BOOLEAN, newOk \in BOOLEAN : InitSettles(r, initOk, newOk)
  \/ \E r \in Reqs, outcome \in FetchOutcomes : AudioSettles(r, outcome)
  \/ \E r \in Reqs, bodyOk \in BOOLEAN, decodeOk \in BOOLEAN, data \in DecodeReturns :
       AudioBufferSettles(r, bodyOk, decodeOk, data)

Spec == Init /\ [][Next]_vars

(***************************************************************************)
(* The surface alone, handling whatever a worker may post.                 *)
(***************************************************************************)
\* Segments in one engine output.
MaxSegs == 2

\* Texts of the segments.
Texts == {"Hello", "world", "Hi"}

RECURSIVE SeqsUpTo(_, _)
SeqsUpTo(S, n) ==
  IF n = 0 THEN {<<>>}
  ELSE LET shorter == SeqsUpTo(S, n - 1) IN
       shorter \cup {Append(q, x) : q \in shorter, x \in S}

\* The outputs whose entries nest their text under `dr`.
SegDocs == SeqsUpTo({Entry("dr", t) : t \in Texts}, MaxSegs)

\* The result messages a worker may post: `complete` or a failure status
\* with an output, or a failure that carries an error description only.
Inbound ==
  {[status |-> st, output |-> d, req |-> 0] : st \in {"complete", "error"}, d \in SegDocs}
    \cup {[status |-> "error", error |-> "AudioFetchError", req |-> 0]}

\* The surface shows nothing or an earlier transcript, a source may be
\* selected, and one or two results of the worker are on their way.
InitSurface ==
  /\ audioSrc \in {""} \cup {createObjectURL(f) : f \in Files} \cup Urls
  /\ text \in {"", "test"}
  /\ toSurface \in {<<m>> : m \in Inbound}
                    \cup {<<m1, m2>> : m1 \in {m \in Inbound : m.status # "complete"},
                                      m2 \in {m \in Inbound : \/ "error" \in DOMAIN m
                                                               \/ /\ m.status = "complete"
                                                                  /\ Len(m.output) = 1}}
  /\ toWorker = <<>>
  /\ h = [r \in Reqs |-> Idle]
  /\ emitted = [r \in Reqs |-> <<>>]

NextSurface ==
  \/ \E files \in FileLists : handleChange(files)
  \/ \E files \in FileLists, url \in Urls \cup {""} : handleDrop(files, url)
  \/ handleAnalysis
  \/ onMessage

SpecSurface == InitSurface /\ [][NextSurface]_vars

(***************************************************************************)
(* Vocabulary of the properties.                                           *)
(***************************************************************************)
Started == {r \in Reqs : h[r].pc # "idle"}
Ended == {r \in Reqs : h[r].pc \in {"done", "failed"}}
Constructions == {r \in Reqs : h[r].constructed}
AssetLoads == {r \in Reqs : h[r].fetched # {}}

\* The invocation has called decode().
DecodeBegun(r) == h[r].pc = "done" \/ h[r].err \in {"decode", "parse"}

\* The invocation has posted exactly one message, and not `complete`.
ReportedFailure(r) == Len(emitted[r]) = 1 /\ emitted[r][1] # "complete"

\* The invocation holds the four buffers it destructures (the bundle).
HoldsBundle(r) == h[r].pc = "awaitInit"

\* C1: the Decoder is constructed at most once in the worker's lifetime,
\* however many requests arrive.
C1_ConstructedAtMostOnce == Cardinality(Constructions) <= 1

\* C2: when every request so far ran alone and succeeded, the four asset
\* locations were fetched exactly once in total, by the first request.
C2_AssetsLoadedOnce ==
  (Started # {} /\ \A r \in Started : h[r].pc = "done" /\ h[r].alone /\ h[r].clean)
    => AssetLoads = {1}

\* C3: the decode call of a later request does not begin before the result
\* message of every earlier request has been emitted.
C3_DecodeAfterEarlierResult ==
  \A r1, r2 \in Reqs : (r1 < r2 /\ DecodeBegun(r2)) => emitted[r1] # <<>>

\* C4: at most one request is in progress at any moment.
C4_OneAtATime == Cardinality(Suspended) <= 1

\* C5: a request whose handling has ended has produced exactly one result
\* message, `complete` exactly when it succeeded.
C5_EveryRequestAnswered ==
  \A r \in Ended :
    /\ Len(emitted[r]) = 1
    /\ (emitted[r][1] = "complete") <=> (h[r].pc = "done")

\* C6: when one of the four asset fetches failed (a rejection or a
\* non-success status), no bundle is produced and no engine is built from
\* that attempt: every buffer of a bundle, and every buffer a Decoder was
\* constructed from, is the resource of its location.
C6_NoBundleFromFailedFetch ==
  \A r \in Reqs :
    /\ HoldsBundle(r) => \A i \in Locs : h[r].bufs[i].bytes.body = "resource"
    /\ h[r].instance # [id |-> 0] =>
         \A b \in {h[r].instance.weights, h[r].instance.tokenizer,
                   h[r].instance.config, h[r].instance.mel_filters} :
           b.bytes.body = "resource"

\* C7: after a request whose audio fetch rejected, that request has a
\* non-complete result, and a request issued next that completes fetched no
\* model asset and constructed no engine.
C7_AudioFailureKeepsEngine ==
  \A r1, r2 \in Reqs :
    (r2 = r1 + 1 /\ h[r1].err = "audioFetch"
       /\ h[r2].alone /\ h[r2].pc = "done" /\ h[r2].clean)
      => /\ ReportedFailure(r1)
         /\ h[r2].fetched = {}
         /\ ~h[r2].constructed

\* C9: after a request whose decode call failed, that request has a
\* non-complete result, and a later request that completes was decoded by
\* the same engine.
C9_DecodeFailureKeepsEngine ==
  \A r1, r2 \in Reqs :
    (r1 < r2 /\ h[r1].err = "decode" /\ h[r2].pc = "done" /\ h[r2].clean)
      => /\ ReportedFailure(r1)
         /\ h[r2].decodedBy = h[r1].decodedBy

\* The failures of asset loading and of engine construction.
InitErrors == {"assetFetch", "assetBody", "wasmInit", "construct"}

\* C8: a request that failed in asset loading or engine construction leaves
\* no engine behind, and every later request loads the four assets and
\* constructs its own engine before it fetches its audio, and posts
\* `complete` when it runs to its end.
C8_InitFailureNotSticky ==
  \A r1, r2 \in Reqs :
    (r1 < r2 /\ h[r1].err \in InitErrors) =>
      /\ ~h[r1].constructed /\ h[r1].instance = NoInstance
      /\ r2 \in Started => h[r2].fetched = Locs
      /\ h[r2].pc \in {"awaitAudio", "awaitAudioBuffer"} =>
           h[r2].constructed /\ h[r2].instance.id = r2
      /\ h[r2].pc = "done" =>
           h[r2].constructed /\ h[r2].decodedBy = r2 /\ emitted[r2] = <<"complete">>

\* C8 witness: the first request failed while fetching the assets, and the
\* second, whose fetches all succeeded, has completed.
C8_Witness ==
  /\ h[1].err = "assetFetch"
  /\ h[2].pc = "done" /\ h[2].clean /\ h[2].alone
  /\ emitted[2] = <<"complete">>

\* The texts in order with one space between neighbours, built left to right.
RECURSIVE SpaceJoined(_, _, _)
SpaceJoined(texts, k, acc) ==
  IF k > Len(texts) THEN acc
  ELSE SpaceJoined(texts, k + 1, IF k = 1 THEN texts[k] ELSE acc \o " " \o texts[k])

\* The surface handles the result message m.
Handles(m) == toSurface # <<>> /\ m = Head(toSurface) /\ toSurface' = Tail(toSurface)

C11_SpaceJoinedInOrder ==
  [][\A m \in Inbound :
       (Handles(m) /\ m.status = "complete") =>
         LET d == m.output
             texts == [i \in 1..Len(d) |-> d[i]["dr"]["text"]]
         IN /\ text' = SpaceJoined(texts, 1, "")
            /\ Len(d) = 0 => text' = ""
            /\ Len(d) = 1 => text' = texts[1]
            /\ Len(d) = 2 => text' = texts[1] \o " " \o texts[2]
            /\ texts = <<"Hello", "world">> => text' = "Hello world"
            /\ texts = <<"Hi">> => text' = "Hi"]_vars

\* C11 witness: the output ["Hello","world"] was handled and is shown.
C11_Witness == toSurface = <<>> /\ text = "Hello world"

\* C14: handling a result whose status is not `complete` leaves the shown
\* transcript, the selected source and the posted requests as they were, and
\* the surface goes on: a waiting result can be handled and, with a source
\* selected, a request can be posted.
C14_FailureLeavesSurface ==
  /\ [][\A m \in Inbound :
          (Handles(m) /\ m.status # "complete") =>
            text' = text /\ audioSrc' = audioSrc /\ toWorker' = toWorker]_vars
  /\ [](toSurface # <<>> => ENABLED onMessage)
  /\ []((audioSrc # "" /\ Sent < MaxReq) => ENABLED (handleAnalysis /\ toWorker' # toWorker))

\* C14 witness: only results without `complete` were handled (the earlier
\* transcript is still shown), and the surface has posted a request since.
C14_Witness == toSurface = <<>> /\ text = "test" /\ toWorker # <<>>

\* C12: whatever the order in which the fetches and the conversions settle,
\* the i-th buffer of a load holds the body answered for the i-th location
\* of `model`, the whole resource when the location answered with success.
C12_BuffersInInputOrder ==
  \A r \in Reqs :
    /\ h[r].pc = "awaitBuffers" =>
         /\ Len(h[r].bufs) = Len(model)
         /\ \A i \in Locs :
              /\ h[r].bufs[i].of = model[i]
              /\ h[r].clean => h[r].bufs[i].body = "resource"
    /\ h[r].pc = "awaitInit" =>
         /\ Len(h[r].bufs) = Len(model)
         /\ \A i \in Locs :
              /\ h[r].bufs[i].bytes.of = model[i]
              /\ h[r].clean => h[r].bufs[i].bytes.body = "resource"

\* C12 witness: a load has returned its four buffers, every location having
\* answered with success.
C12_Witness == \E r \in Reqs : h[r].pc = "awaitInit" /\ h[r].clean

\* C13: a step posts at most one request, only while a source is selected,
\* and the request carries that source; a press with a source selected does
\* post; so every request queued for or received by the worker carries a
\* non-empty locator.
C13_OneLocatorPerPress ==
  /\ [][/\ Len(toWorker') > Len(toWorker) =>
             audioSrc # "" /\ toWorker' = Append(toWorker, [audioSrc |-> audioSrc])
        /\ audioSrc = "" => Len(toWorker') <= Len(toWorker)]_vars
  /\ []((audioSrc # "" /\ Sent < MaxReq) =>
          ENABLED (handleAnalysis /\ toWorker' = Append(toWorker, [audioSrc |-> audioSrc])))
  /\ [](/\ \A i \in 1..Len(toWorker) : toWorker[i].audioSrc # ""
        /\ \A r \in Started : h[r].src # "")

\* C13 witness: one request is queued, carrying the selected source, and the
\* worker has received another.
C13_Witness ==
  /\ Len(toWorker) = 1 /\ toWorker[1].audioSrc = audioSrc
  /\ Cardinality(Started) = 1

\* C15: whenever a Decoder is constructed, each of the four buffers it is
\* given is the resource of its location: none is missing or stands for a
\* failed download.
C15_ConstructedFromFullBundle ==
  [][\A r \in Reqs :
       (~h[r].constructed /\ h'[r].constructed) =>
         /\ Len(h[r].bufs) = Len(model)
         /\ \A i \in Locs : h[r].bufs[i].bytes.body = "resource"]_vars

\* The step in which invocation r constructs its Decoder.
Constructs(r) == ~h[r].constructed /\ h'[r].constructed

\* C16: while the responses are awaited all four fetches have been issued
\* and nothing is converted; the conversions start only with all four
\* responses at hand; and a Decoder is constructed only from the four
\* converted buffers, after the load has returned.
C16_LoadPhases ==
  /\ [](\A r \in Reqs :
          /\ h[r].pc = "awaitResponses" =>
               h[r].fetched = Locs /\ h[r].bufs = <<>> /\ ~h[r].constructed
          /\ h[r].pc = "awaitBuffers" =>
               /\ DOMAIN h[r].bufs = Locs
               /\ \A i \in Locs : DOMAIN h[r].bufs[i] = {"of", "body"}
               /\ ~h[r].constructed
          /\ h[r].pc = "awaitInit" =>
               /\ DOMAIN h[r].bufs = Locs
               /\ \A i \in Locs : DOMAIN h[r].bufs[i] = {"bytes"}
               /\ ~h[r].constructed)
  /\ [][\A r \in Reqs :
          /\ (h[r].pc = "awaitResponses" /\ h'[r].pc # "awaitResponses") =>
               h'[r].pc \in {"awaitBuffers", "failed"}
          /\ (h[r].pc = "awaitBuffers" /\ h'[r].pc # "awaitBuffers") =>
               h'[r].pc \in {"awaitInit", "failed"}
          /\ Constructs(r) => h[r].pc = "awaitInit"]_vars

\* C16 witness: a Decoder was constructed after a load in which every
\* location answered with success.
C16_Witness == \E r \in Reqs : h[r].pc = "awaitAudio" /\ h[r].constructed /\ h[r].clean

\* C17: every Decoder is constructed with the bytes of model.safetensors as
\* weights, of tokenizer.json as tokenizer, of config.json as config and of
\* mel_filters.safetensors as mel_filters, and with the flags (false, true,
\* true, null, null), whatever the request.
C17_RolesAndFlags ==
  \A r \in Reqs :
    h[r].instance # NoInstance =>
      /\ h[r].instance.weights.bytes.of = model[1]
      /\ h[r].instance.tokenizer.bytes.of = "model/tokenizer.json"
      /\ h[r].instance.config.bytes.of = "model/config.json"
      /\ h[r].instance.mel_filters.bytes.of = "model/mel_filters.safetensors"
      /\ h[r].instance.flags = <<FALSE, TRUE, TRUE, "null", "null">>

\* C17 witness: two requests for different sources each hold a Decoder.
C17_Witness ==
  \E r1, r2 \in Reqs :
    /\ h[r1].instance # NoInstance /\ h[r2].instance # NoInstance
    /\ h[r1].src # h[r2].src

\* C18: the results reach the surface in the order in which their requests
\* were sent.
C18_ResultsInSendOrder ==
  \A i, j \in 1..Len(toSurface) : i < j => toSurface[i].req < toSurface[j].req

\* C19: an invocation fetches and decodes the audio of the locator it was
\* started with: the locator never changes, the bytes it holds for decoding
\* come from that locator, and its `complete` message is posted in the step
\* that decodes those bytes with its own Decoder and carries what the engine
\* returned; a result is emitted only by an invocation that has decoded.
C19_NoMixing ==
  /\ [](\A r \in Reqs :
          /\ h[r].pc = "awaitAudioBuffer" =>
               h[r].bufs = <<arrayBuffer([url |-> h[r].src, ok |-> h[r].bufs[1].body = "resource"])>>
          /\ emitted[r] # <<>> => h[r].pc = "done" /\ h[r].decodedBy = r)
  /\ [](\A i \in 1..Len(toSurface) : h[toSurface[i].req].pc = "done")
  /\ [][\A r \in Reqs :
          /\ (h[r].pc = "idle" /\ h'[r].pc # "idle") =>
               toWorker # <<>> /\ h'[r].src = Head(toWorker).audioSrc
          /\ h[r].pc # "idle" => h'[r].src = h[r].src
          /\ (h[r].pc # "done" /\ h'[r].pc = "done") =>
               /\ h[r].pc = "awaitAudioBuffer"
               /\ h[r].bufs[1].of = h[r].src
               /\ h[r].instance.id = r /\ h'[r].decodedBy = r
               /\ \E d \in DecodeReturns :
                    /\ d.json
                    /\ toSurface' = Append(toSurface,
                         [status |-> "complete", output |-> d.doc, req |-> r])]_vars

\* C19 witness: two requests for different sources, the second started
\* while the first was suspended, have both completed.
C19_Witness ==
  \E r1, r2 \in Reqs :
    /\ r1 < r2 /\ h[r1].src # h[r2].src /\ ~h[r2].alone
    /\ h[r1].pc = "done" /\ h[r2].pc = "done"

====
